---- MODULE Spec2Model ----
(***************************************************************************)
(* MultiClip (src/multiclip.py): a multi-slot clipboard daemon and its CLI *)
(* over one persisted JSON file, ~/.multiclip.json.                        *)
(*                                                                         *)
(* Python values are modelled as follows.                                  *)
(*   dict        a function whose DOMAIN is the set of keys                *)
(*   list        a sequence                                                *)
(*   str         a string                                                  *)
(*   the file    a record [kind, top, obj]: kind says what is on disk      *)
(*               ("absent", "garbage", "empty", "json"), top the type of   *)
(*               the top-level JSON value and obj the members of a         *)
(*               top-level object                                          *)
(*   a time      a natural number, what utc_now() returned                 *)
(*   an outcome  a record [raised, data]: raised is TRUE when the call     *)
(*               ends in an uncaught exception                             *)
(***************************************************************************)
EXTENDS Integers, Sequences, FiniteSets, TLC

\* Bounds of the model.
MaxHist == 2
MaxClock == 1

\* What get_primary_selection() can return (it returns "" on any failure).
Texts == {"", "x", "y"}

----------------------------------------------------------------------------
\* Python dict operations.

\* d[k] = v
DictSet(d, k, v) == [x \in (DOMAIN d) \cup {k} |-> IF x = k THEN v ELSE d[x]]

\* del d[k]
DictDel(d, k) == [x \in (DOMAIN d) \ {k} |-> d[x]]

\* d.setdefault(k, v)
SetDefault(d, k, v) == IF k \in DOMAIN d THEN d ELSE DictSet(d, k, v)

----------------------------------------------------------------------------
\* The slot table and the hotkey bindings of the daemon.

Letters ==
  << "A", "B", "C", "D", "E", "F", "G", "H", "I", "J", "K", "L", "M",
     "N", "O", "P", "Q", "R", "S", "T", "U", "V", "W", "X", "Y", "Z" >>

LowerLetters ==
  << "a", "b", "c", "d", "e", "f", "g", "h", "i", "j", "k", "l", "m",
     "n", "o", "p", "q", "r", "s", "t", "u", "v", "w", "x", "y", "z" >>

Digits == << "1", "2", "3", "4", "5", "6", "7", "8", "9" >>

\* chr(c) for c in range(65, 91)
Chr(c) == Letters[c - 64]

\* str(n) for n in range(1, 10)
Str(n) == Digits[n]

\* s.lower() of a one-character string
Lower(s) ==
  IF \E i \in DOMAIN Letters : Letters[i] = s
    THEN LowerLetters[CHOOSE i \in DOMAIN Letters : Letters[i] = s]
    ELSE s

\* The keys of the dict `slots`, in insertion order: A..Z, then 1..9.
SlotOrder ==
  [i \in 1..(Len(Letters) + Len(Digits)) |->
     IF i <= Len(Letters) THEN Chr(64 + i) ELSE Str(i - Len(Letters))]

SlotUniverse == {SlotOrder[i] : i \in DOMAIN SlotOrder}

\* SlotCombos with one modifier for both keys.
SlotCombosOneModifier(s) == << "<ctrl>+" \o Lower(s), "<ctrl>+" \o Lower(s) >>

\* The (assign_key, paste_key) pair the dict comprehensions give a slot.
SlotCombos(s) == << "<ctrl>+" \o Lower(s), "<alt>+" \o Lower(s) >>

\* slots = {**{chr(c): ...}, **{str(n): ...}}
slots == [s \in SlotUniverse |-> SlotCombos(s)]

\* Binding with a closure that reads the loop variable when it is called: every
\* closure sees the last slot of the loop.
BindingLate(action, n) == [action |-> action, slot |-> SlotOrder[Len(SlotOrder)]]

\* The closure registered for one key: which handler it calls, on which slot.
\* `s=slot` binds the slot of the iteration that creates the lambda.
Binding(action, n) == [action |-> action, slot |-> SlotOrder[n]]

\* The assignments hotkeys[key] = closure of the registration loop, in order:
\* iteration n makes assignments 2n-1 (the assign key) and 2n (the paste key).
Registrations ==
  [i \in 1..(2 * Len(SlotOrder)) |->
     LET n == (i + 1) \div 2 IN
       IF i % 2 = 1
         THEN [key |-> slots[SlotOrder[n]][1], closure |-> Binding("assign", n)]
         ELSE [key |-> slots[SlotOrder[n]][2], closure |-> Binding("paste", n)]]

\* hotkeys after the loop: each key holds the closure last assigned to it.
hotkeys ==
  [k \in {Registrations[i].key : i \in DOMAIN Registrations} |->
     LET last == CHOOSE i \in DOMAIN Registrations :
                   /\ Registrations[i].key = k
                   /\ \A j \in DOMAIN Registrations :
                        Registrations[j].key = k => j <= i
     IN Registrations[last].closure]

----------------------------------------------------------------------------
\* The persisted file.

NoFile == [kind |-> "absent", top |-> "", obj |-> << >>]

\* Bytes that are not JSON.
Garbage == [kind |-> "garbage", top |-> "", obj |-> << >>]

\* A JSON document whose top-level value is not an object (e.g. []).
JsonArray == [kind |-> "json", top |-> "array", obj |-> << >>]

\* json.dump(data, f, indent=2) of a dict, once complete on disk.
JsonDump(data) == [kind |-> "json", top |-> "object", obj |-> data]

\* {"slots": {}, "history": []}
EmptyStore == [k \in {"slots", "history"} |-> << >>]

Ok(data) == [raised |-> FALSE, data |-> data]
Raised == [raised |-> TRUE, data |-> << >>]

\* json.load(f): raises unless the file holds one complete JSON document.
JsonLoad(f) ==
  IF f.kind = "json" THEN Ok([top |-> f.top, obj |-> f.obj]) ELSE Raised

\* load_data()
load_data(f) ==
  IF f.kind = "absent" THEN Ok(EmptyStore)
  ELSE LET parsed == JsonLoad(f) IN
    IF parsed.raised THEN Ok(EmptyStore)
    \* data.setdefault is outside the try: a non-dict has no such method
    ELSE IF parsed.data.top # "object" THEN Raised
    ELSE Ok(SetDefault(SetDefault(parsed.data.obj, "slots", << >>),
                       "history", << >>))

\* load_data returns for this file.
Loads(f) == ~load_data(f).raised

\* The slot mapping and the history of the Store the file holds (empty when
\* load_data raises and there is no Store).
SlotsOf(f) == IF Loads(f) THEN load_data(f).data["slots"] ELSE << >>
HistOf(f) == IF Loads(f) THEN load_data(f).data["history"] ELSE << >>

\* open(DATA_FILE, "w"): the file exists and is empty.
Truncated == [kind |-> "empty", top |-> "", obj |-> << >>]

\* json.dump(data, f) and the close of f, when the file holds `f` by then. The
\* document is shorter than the io buffer, so it reaches the file in one write
\* at offset 0, at the close. If another writer has written since this one's
\* open, the bytes beyond the document's length stay: the file holds the
\* document, or the document followed by the tail of the other one.
Written(f, data) ==
  IF f.kind = "empty" \/ f = JsonDump(data)
    THEN {JsonDump(data)}
    ELSE {JsonDump(data), Garbage}

\* save_data(data) with no other process in between.
save_data(data) == CHOOSE f \in Written(Truncated, data) : TRUE

----------------------------------------------------------------------------
\* The state.

VARIABLES
  file,    \* what ~/.multiclip.json holds
  clock,   \* the time utc_now() last returned
  ev,      \* what the last handler or command did (see Event)
  key,     \* the combo whose closure ran last ("" when a CLI command ran last)
  proc,    \* where each process is in its handler, when handlers interleave
  loop     \* the daemon process (see Loop)

vars == << file, clock, ev, key, proc, loop >>

\* What `multiclip daemon` finds on the machine when it starts: whether pynput
\* can be imported, platform.system(), has_cmd("xclip"), has_cmd("wl-copy"),
\* _HAS_PYPERCLIP.
Envs ==
  [pynput : BOOLEAN, platform : {"Linux", "Darwin"}, xclip : BOOLEAN,
   wlcopy : BOOLEAN, pyperclip : BOOLEAN]

\* The environment field of the events that are not a daemon start.
NoEnv ==
  [pynput |-> FALSE, platform |-> "", xclip |-> FALSE, wlcopy |-> FALSE,
   pyperclip |-> FALSE]

\* The daemon process:
\*   state       "Idle" (not started), "Running" (inside h.join()), "Terminated"
\*   code        its exit code once Terminated
\*   registered  the combos given to GlobalHotKeys
Loop(state, code, registered) ==
  [state |-> state, code |-> code, registered |-> registered]

\* The observable effects of one handler or command:
\*   op, slot   which one ran, on which argument
\*   text       the selection an assign captured
\*   out        the line it logged or echoed ("" when it raised before that)
\*   clip       the arguments of its set_clipboard calls, in order
\*   saves      how many times it called save_data
\*   raised     TRUE when it ended in an uncaught exception
\*   env        what a daemon start found on the machine
\*   src        what the file given to an import held
Event(op, slot, text, out, clip, saves, raised) ==
  [op |-> op, slot |-> slot, text |-> text, out |-> out, clip |-> clip,
   saves |-> saves, raised |-> raised, env |-> NoEnv, src |-> NoFile]

\* The slots whose keys the model presses, a letter and a digit, and their keys.
PressedSlots == {"A", "1"}
PressedCombos == {SlotCombos(s)[i] : s \in PressedSlots, i \in 1..2}

\* The arguments given to `multiclip clear`.
ClearArgs == PressedSlots \cup {Lower(s) : s \in PressedSlots}

\* AssignData with the slot written by setdefault: a slot that is already there
\* keeps its old entry.
AssignDataKeepsFirst(data, slot, text, t1, t2) ==
  LET d0 == SetDefault(data, "history", << >>)
      d1 == DictSet(d0, "slots",
                    SetDefault(d0["slots"], slot, [content |-> text, time |-> t1]))
  IN DictSet(d1, "history",
             Append(d1["history"],
                    [slot |-> slot, content |-> text, time |-> t2]))

\* AssignData that builds a new dict from the two keys it knows.
AssignDataStoreOnly(data, slot, text, t1, t2) ==
  [k \in {"slots", "history"} |->
     IF k = "slots"
       THEN DictSet(data["slots"], slot, [content |-> text, time |-> t1])
       ELSE Append(data["history"], [slot |-> slot, content |-> text, time |-> t2])]

\* The dict assign() saves: data after lines 291-302.
AssignData(data, slot, text, t1, t2) ==
  LET d0 == SetDefault(data, "history", << >>)
      d1 == DictSet(d0, "slots",
                    DictSet(d0["slots"], slot, [content |-> text, time |-> t1]))
  IN DictSet(d1, "history",
             Append(d1["history"],
                    [slot |-> slot, content |-> text, time |-> t2]))

\* The emptiness test left out.
NothingSelectedNever(text) == FALSE

\* `if not text`
NothingSelected(text) == text = ""

\* daemon.assign(slot): text is what get_primary_selection() returned, t1 and
\* t2 what the two utc_now() calls returned.
assign(slot, text, t1, t2) ==
  IF NothingSelected(text)
    THEN /\ ev' = Event("assign", slot, text, "nothing selected", << >>, 0, FALSE)
         /\ UNCHANGED << file, clock >>
    ELSE LET loaded == load_data(file) IN
      IF loaded.raised
        THEN /\ ev' = Event("assign", slot, text, "", << >>, 0, TRUE)
             /\ UNCHANGED << file, clock >>
        ELSE /\ Len(loaded.data["history"]) < MaxHist
             /\ file' = save_data(AssignData(loaded.data, slot, text, t1, t2))
             /\ clock' = t2
             /\ ev' = Event("assign", slot, text, "assigned", << >>, 1, FALSE)

\* PasteClip without the membership test: an absent slot pastes "".
PasteClipAlways(data, slot) ==
  IF slot \notin DOMAIN data["slots"] THEN << "" >>
  ELSE << data["slots"][slot].content >>

\* PasteClip that writes the clipboard and then the primary selection.
PasteClipTwice(data, slot) ==
  IF slot \notin DOMAIN data["slots"] THEN << >>
  ELSE << data["slots"][slot].content, data["slots"][slot].content >>

\* The arguments of the set_clipboard calls paste() makes.
PasteClip(data, slot) ==
  IF slot \notin DOMAIN data["slots"] THEN << >>
  ELSE << data["slots"][slot].content >>

\* The line paste() logs.
PasteLog(data, slot) ==
  IF slot \notin DOMAIN data["slots"] THEN "is empty" ELSE "to clipboard"

\* daemon.paste(slot)
paste(slot) ==
  LET loaded == load_data(file) IN
    /\ UNCHANGED << file, clock >>
    /\ IF loaded.raised
         THEN ev' = Event("paste", slot, "", "", << >>, 0, TRUE)
         ELSE ev' = Event("paste", slot, "", PasteLog(loaded.data, slot),
                          PasteClip(loaded.data, slot), 0, FALSE)

\* The backend check without the platform test: no platform needs a backend.
RequiresBackendNever(e) == FALSE

\* `if PLATFORM == "Linux"`
RequiresBackend(e) == e.platform = "Linux"

\* `has_cmd("xclip") or has_cmd("wl-copy") or _HAS_PYPERCLIP`
BackendUsable(e) == e.xclip \/ e.wlcopy \/ e.pyperclip

\* multiclip daemon, from its start to the call of h.join(): e is what it
\* finds on the machine.
daemon(e) ==
  IF ~e.pynput
    THEN /\ loop' = Loop("Terminated", 1, {})
         /\ ev' = [Event("daemon", "", "", "Install dependencies", << >>, 0, FALSE)
                     EXCEPT !.env = e]
  ELSE IF RequiresBackend(e) /\ ~BackendUsable(e)
    THEN /\ loop' = Loop("Terminated", 1, {})
         /\ ev' = [Event("daemon", "", "", "Install xclip", << >>, 0, FALSE)
                     EXCEPT !.env = e]
  ELSE /\ loop' = Loop("Running", 0, DOMAIN hotkeys)
       /\ ev' = [Event("daemon", "", "", "Daemon started", << >>, 0, FALSE)
                   EXCEPT !.env = e]

Daemon ==
  /\ loop.state = "Idle"
  /\ \E e \in Envs : daemon(e)
  /\ key' = ""
  /\ UNCHANGED << file, clock, proc >>

\* GlobalHotKeys runs a closure on its listener thread: an exception that
\* leaves the closure stops the listener, h.join() raises it again in
\* daemon() and the process ends with a traceback.
Dispatched(raised) ==
  loop' = IF raised THEN Loop("Terminated", 1, {}) ELSE loop

\* Ctrl+C while the daemon is inside h.join().
Stop ==
  /\ loop.state = "Running"
  /\ loop' = Loop("Terminated", 1, {})
  /\ ev' = Event("stop", "", "", "", << >>, 0, FALSE)
  /\ key' = ""
  /\ UNCHANGED << file, clock, proc >>

\* The hotkey capability calls the closure registered for a pressed combo.
HotkeyAssign ==
  \E c \in PressedCombos :
    /\ loop.state = "Running" /\ c \in loop.registered
    /\ hotkeys[c].action = "assign"
    /\ key' = c
    /\ UNCHANGED proc
    /\ \E text \in Texts, t1 \in clock..MaxClock :
         \E t2 \in t1..MaxClock : assign(hotkeys[c].slot, text, t1, t2)
    /\ Dispatched(ev'.raised)

HotkeyPaste ==
  \E c \in PressedCombos :
    /\ loop.state = "Running" /\ c \in loop.registered
    /\ hotkeys[c].action = "paste"
    /\ key' = c
    /\ UNCHANGED proc
    /\ paste(hotkeys[c].slot)
    /\ Dispatched(ev'.raised)

\* What the file holds after a save_data call that raised OSError: what it
\* held, when open(DATA_FILE, "w") was refused; nothing, when the write was
\* refused after the open had truncated the file.
SaveFailed(f) == {f, Truncated}

\* A pressed assign combo on a disk that refuses the write: assign() runs to
\* its save_data call, which raises.
HotkeyAssignSaveFails ==
  \E c \in PressedCombos :
    /\ loop.state = "Running" /\ c \in loop.registered
    /\ hotkeys[c].action = "assign"
    /\ key' = c
    /\ UNCHANGED proc
    /\ \E text \in Texts, t2 \in clock..MaxClock :
         /\ ~NothingSelected(text)
         /\ ~load_data(file).raised
         /\ file' \in SaveFailed(file)
         /\ clock' = t2
         /\ ev' = Event("assign", hotkeys[c].slot, text, "", << >>, 1, TRUE)
    /\ Dispatched(ev'.raised)

\* ClearData that empties the slot mapping.
ClearDataAll(data, slot) == DictSet(data, "slots", << >>)

\* ClearData that also drops the slot's entries from the history.
ClearDataPurgesHistory(data, slot) ==
  DictSet(DictSet(data, "slots", DictDel(data["slots"], slot)), "history",
          SelectSeq(data["history"], LAMBDA e : e.slot # slot))

\* ClearData that keeps the key and blanks the slot's content.
ClearDataBlank(data, slot) ==
  DictSet(data, "slots",
          DictSet(data["slots"], slot,
                  [content |-> "", time |-> data["slots"][slot].time]))

\* The dict clear() saves when the slot is there.
ClearData(data, slot) == DictSet(data, "slots", DictDel(data["slots"], slot))

\* multiclip clear <slot>
clear(slot) ==
  LET loaded == load_data(file) IN
    /\ UNCHANGED clock
    /\ IF loaded.raised
         THEN /\ ev' = Event("clear", slot, "", "", << >>, 0, TRUE)
              /\ UNCHANGED file
         ELSE IF slot \in DOMAIN loaded.data["slots"]
           THEN /\ file' = save_data(ClearData(loaded.data, slot))
                /\ ev' = Event("clear", slot, "", "Cleared slot", << >>, 1, FALSE)
           ELSE /\ ev' = Event("clear", slot, "", "Slot not found", << >>, 0, FALSE)
                /\ UNCHANGED file

Clear == \E slot \in ClearArgs : clear(slot) /\ key' = "" /\ UNCHANGED << proc, loop >>

\* multiclip export <path>: save_data(load_data()), then load_data() again
\* is written to <path>, a file the program never reads back; `writable` says
\* whether <path> can be opened for writing.
export(writable) ==
  LET loaded == load_data(file) IN
    /\ UNCHANGED clock
    /\ IF loaded.raised
         THEN /\ ev' = Event("export", "", "", "", << >>, 0, TRUE)
              /\ UNCHANGED file
         ELSE /\ file' = save_data(loaded.data)
              /\ IF writable
                   THEN ev' = Event("export", "", "", "Exported successfully",
                                    << >>, 1, FALSE)
                   ELSE ev' = Event("export", "", "", "", << >>, 1, TRUE)

Export ==
  \E writable \in BOOLEAN : export(writable) /\ key' = "" /\ UNCHANGED << proc, loop >>

\* The files given to `multiclip import`: missing, not JSON, a JSON array, an
\* empty object, a store with a slot key outside the universe, and an object
\* with a slot of the universe and no history.
ImportFiles ==
  { NoFile, Garbage, JsonArray, JsonDump(<< >>),
    JsonDump([k \in {"slots", "history"} |->
                IF k = "slots" THEN [s \in {"a"} |-> [content |-> "z", time |-> 0]]
                ELSE << >>]),
    JsonDump([k \in {"slots"} |->
                [s \in {"A"} |-> [content |-> "z", time |-> 0]]]) }

\* ImportData that reads its input the way load_data reads the store: a file
\* that is missing or cannot be parsed counts as the empty Store.
ImportDataLenient(src) ==
  LET parsed == JsonLoad(src) IN
    IF src.kind = "absent" \/ parsed.raised \/ parsed.data.top # "object"
      THEN Ok(EmptyStore)
      ELSE Ok(SetDefault(SetDefault(parsed.data.obj, "slots", << >>), "history", << >>))

\* The dict import_slots saves, lines 248-251: open() raises on a missing
\* file, json.load on bytes that are not JSON, setdefault on a document that
\* is not an object.
ImportData(src) ==
  LET parsed == JsonLoad(src) IN
    IF src.kind = "absent" \/ parsed.raised \/ parsed.data.top # "object"
      THEN Raised
      ELSE Ok(SetDefault(SetDefault(parsed.data.obj, "slots", << >>), "history", << >>))

\* multiclip import <path>: src is what <path> holds.
import_slots(src) ==
  LET read == ImportData(src) IN
    /\ UNCHANGED clock
    /\ IF read.raised
         THEN /\ ev' = [Event("import", "", "", "", << >>, 0, TRUE) EXCEPT !.src = src]
              /\ UNCHANGED file
         ELSE /\ file' = save_data(read.data)
              /\ ev' = [Event("import", "", "", "Imported successfully", << >>, 1, FALSE)
                          EXCEPT !.src = src]

Import ==
  \E src \in ImportFiles : import_slots(src) /\ key' = "" /\ UNCHANGED << proc, loop >>

\* What the file can hold when the program starts: nothing, bytes that are not
\* JSON, a JSON array, objects lacking one or both keys, and a store written
\* by a newer version with a key this one does not know.
InitFiles ==
  { NoFile, Garbage, JsonArray, JsonDump(<< >>),
    JsonDump([k \in {"slots"} |-> << >>]),
    JsonDump([k \in {"history"} |-> << >>]),
    JsonDump([k \in {"slots", "history", "version"} |->
                IF k = "version" THEN 2 ELSE << >>]) }

----------------------------------------------------------------------------
\* Interleaved processes: the daemon's hotkey thread and one CLI command run
\* against the same file. A handler takes a step at each file operation:
\* the read of load_data, the open of save_data, the close of save_data.
\*   pc      "idle", "loaded" (load_data returned), "opened" (save_data has
\*           opened the file for writing), "done" (the handler returned)
\*   seen    what load_data returned
\*   data    the dict being saved
\*   before  what the file held when save_data opened it
\*   start   what the file held when the handler started
\*   joined  the other process was inside a handler when this one started
\* The model follows overlaps of two operations, one of each process: a
\* process that has returned starts again once the other one has returned too.

Procs == {"daemon", "cli"}

OpsOf(p) == IF p = "daemon" THEN {"assign", "paste"} ELSE {"clear", "import"}

\* The selections an interleaved assign captures.
ConcTexts == {"x"}

Job(pc, op, slot, text, seen, data, before, start, joined) ==
  [pc |-> pc, op |-> op, slot |-> slot, text |-> text, seen |-> seen,
   data |-> data, before |-> before, start |-> start, joined |-> joined]

IdleJob == Job("idle", "", "", "", Ok(<< >>), << >>, NoFile, NoFile, FALSE)

\* Process p is inside a handler or command.
InFlight(p) == proc[p].pc \in {"loaded", "opened"}

\* Process p can start a handler or command.
CanStart(p) ==
  \/ proc[p].pc = "idle"
  \/ proc[p].pc = "done" /\ \A q \in Procs : ~InFlight(q)

\* p starts with the given job; what the processes that have returned did is
\* dropped.
Started(p, job) ==
  [q \in Procs |-> IF q = p THEN job ELSE IF InFlight(q) THEN proc[q] ELSE IdleJob]

\* A handler or command starts and reaches the return of its load_data call.
Load(p) ==
  /\ CanStart(p)
  /\ p = "daemon" => loop.state = "Running"
  /\ \E op \in OpsOf(p) \ {"import"}, slot \in PressedSlots, text \in ConcTexts :
       /\ (op = "assign" /\ Loads(file)) => Len(HistOf(file)) < MaxHist
       /\ proc' = Started(p, Job("loaded", op, slot,
                                 IF op = "assign" THEN text ELSE "",
                                 load_data(file), << >>, NoFile, file,
                                 \E q \in Procs : InFlight(q)))
  /\ UNCHANGED << file, clock, ev, key, loop >>

\* The rest of a handler that saves nothing: load_data raised, paste, or a
\* clear of a slot that is not there.
Finish(p) ==
  /\ proc[p].pc = "loaded"
  /\ \/ proc[p].seen.raised
     \/ proc[p].op = "paste"
     \/ /\ ~proc[p].seen.raised
        /\ proc[p].op = "clear"
        /\ proc[p].slot \notin DOMAIN proc[p].seen.data["slots"]
  /\ proc' = [proc EXCEPT ![p].pc = "done"]
  /\ IF p = "daemon" THEN Dispatched(proc[p].seen.raised) ELSE UNCHANGED loop
  /\ UNCHANGED << file, clock, ev, key >>

\* The handler changes its dict and save_data opens the file.
SaveOpen(p) ==
  /\ proc[p].pc = "loaded"
  /\ ~proc[p].seen.raised
  /\ \/ /\ proc[p].op = "assign"
        /\ \E t1 \in clock..MaxClock : \E t2 \in t1..MaxClock :
             /\ clock' = t2
             /\ proc' = [proc EXCEPT ![p].pc = "opened", ![p].before = file,
                           ![p].data = AssignData(proc[p].seen.data, proc[p].slot,
                                                  proc[p].text, t1, t2)]
     \/ /\ proc[p].op = "clear"
        /\ proc[p].slot \in DOMAIN proc[p].seen.data["slots"]
        /\ UNCHANGED clock
        /\ proc' = [proc EXCEPT ![p].pc = "opened", ![p].before = file,
                      ![p].data = ClearData(proc[p].seen.data, proc[p].slot)]
  /\ file' = Truncated
  /\ UNCHANGED << ev, key, loop >>

\* import reads its input, which is a JSON object, and save_data opens the file.
ImportOpen(p) ==
  /\ CanStart(p)
  /\ "import" \in OpsOf(p)
  /\ \E src \in ImportFiles :
       LET parsed == JsonLoad(src) IN
         /\ ~parsed.raised
         /\ parsed.data.top = "object"
         /\ proc' = Started(p, Job("opened", "import", "", "", Ok(<< >>),
                                   SetDefault(SetDefault(parsed.data.obj, "slots", << >>),
                                              "history", << >>),
                                   file, file, \E q \in Procs : InFlight(q)))
  /\ file' = Truncated
  /\ UNCHANGED << clock, ev, key, loop >>

\* json.dump writes the document and the file is closed.
SaveClose(p) ==
  /\ proc[p].pc = "opened"
  /\ file' \in Written(file, proc[p].data)
  /\ proc' = [proc EXCEPT ![p].pc = "done"]
  /\ UNCHANGED << clock, ev, key, loop >>

----------------------------------------------------------------------------
Init ==
  /\ file \in InitFiles
  /\ clock = 0
  /\ ev = Event("start", "", "", "", << >>, 0, FALSE)
  /\ key = ""
  /\ proc = [p \in Procs |-> IdleJob]
  /\ loop = Loop("Idle", 0, {})

Next == Daemon \/ HotkeyAssign \/ HotkeyPaste \/ Stop \/ Clear \/ Export \/ Import

Spec == Init /\ [][Next]_vars

\* The daemon's start and handlers and clear alone: no import, no export.
NextStore == Daemon \/ HotkeyAssign \/ HotkeyPaste \/ Clear

StoreSpec == Init /\ [][NextStore]_vars

\* The program on a disk that can refuse a write of the daemon.
NextFault == Next \/ HotkeyAssignSaveFails

FaultSpec == Init /\ [][NextFault]_vars

NextConc ==
  \/ Daemon
  \/ \E p \in Procs : Load(p) \/ Finish(p) \/ SaveOpen(p) \/ ImportOpen(p) \/ SaveClose(p)

ConcSpec == Init /\ [][NextConc]_vars

----------------------------------------------------------------------------
\* Properties. The Store a file holds is what load_data returns for it.

\* get(slot) of the specification: the slot's content, or absent.
Get(f, slot) ==
  IF slot \in DOMAIN SlotsOf(f)
    THEN [present |-> TRUE, content |-> SlotsOf(f)[slot].content]
    ELSE [present |-> FALSE, content |-> ""]

\* The Store of a loaded dict: its slot mapping and its history.
StoreOf(data) == [slots |-> data["slots"], history |-> data["history"]]

\* h2 is h with entries added at the end, if any.
Extends(h2, h) ==
  /\ Len(h2) >= Len(h)
  /\ \A i \in 1..Len(h) : h2[i] = h[i]

\* C1: every assign of non-empty content, on a file that holds a Store, makes
\* get(slot) return that content, leaves every other slot as it was, and adds
\* exactly one entry {slot, content} at the end of the history, the earlier
\* entries staying in place. From the empty Store, get(slot) is therefore the
\* content of the latest assign to the slot and the history is the sequence of
\* the assigns made, in order.
C1_AssignSetsSlotAppendsHistory ==
  [][(ev'.op = "assign" /\ ev'.text # "" /\ Loads(file)) =>
       /\ ~ev'.raised
       /\ Loads(file')
       /\ Get(file', ev'.slot) = [present |-> TRUE, content |-> ev'.text]
       /\ DOMAIN SlotsOf(file') = DOMAIN SlotsOf(file) \cup {ev'.slot}
       /\ \A o \in DOMAIN SlotsOf(file) \ {ev'.slot} :
            SlotsOf(file')[o] = SlotsOf(file)[o]
       /\ Len(HistOf(file')) = Len(HistOf(file)) + 1
       /\ Extends(HistOf(file'), HistOf(file))
       /\ HistOf(file')[Len(HistOf(file'))].slot = ev'.slot
       /\ HistOf(file')[Len(HistOf(file'))].content = ev'.text
    ]_vars

\* assign(A, x) then assign(A, y) from the empty Store: get(A) is y and the
\* history holds x then y.
C1_Witness ==
  /\ ev.op = "assign" /\ ev.slot = "A" /\ ev.text = "y"
  /\ Get(file, "A") = [present |-> TRUE, content |-> "y"]
  /\ Len(HistOf(file)) = 2
  /\ HistOf(file)[1].slot = "A" /\ HistOf(file)[1].content = "x"
  /\ HistOf(file)[2].slot = "A" /\ HistOf(file)[2].content = "y"

\* C2: an assign that captured the empty selection changes nothing: the file
\* is as it was (so every slot, every content and the history are), save_data
\* is not called, and the handler logs "nothing selected".
C2_EmptyAssignIsNoOp ==
  [][(ev'.op = "assign" /\ ev'.text = "") =>
       /\ file' = file
       /\ ev'.saves = 0
       /\ ~ev'.raised
       /\ ev'.out = "nothing selected"
    ]_vars

\* An empty assign to a slot that holds content, with a history.
C2_Witness ==
  /\ ev.op = "assign" /\ ev.text = "" /\ ev.out = "nothing selected"
  /\ ev.slot \in DOMAIN SlotsOf(file)
  /\ Len(HistOf(file)) = MaxHist

\* C3: across assign, paste and clear the history is append-only: it never
\* gets shorter, every entry recorded stays at its position with its slot,
\* content and time, and at most one entry is added, at the end.
C3_HistoryAppendOnly ==
  [][(ev'.op \in {"assign", "paste", "clear"}) =>
       /\ Extends(HistOf(file'), HistOf(file))
       /\ Len(HistOf(file')) <= Len(HistOf(file)) + 1
    ]_vars

\* A clear removed a slot and the history still holds the slot's entries.
C3_Witness ==
  /\ ev.op = "clear" /\ ev.out = "Cleared slot"
  /\ ev.slot \notin DOMAIN SlotsOf(file)
  /\ Len(HistOf(file)) = MaxHist
  /\ \A i \in 1..Len(HistOf(file)) : HistOf(file)[i].slot = ev.slot

\* C4: on a file that holds a Store, clear(slot) of a slot that is there
\* removes exactly that slot and reports "Cleared slot"; of a slot that is not
\* there it reports "Slot not found" and leaves the file as it was. Either
\* way the history and every other slot are as before.
C4_ClearRemovesExactlyTheSlot ==
  [][(ev'.op = "clear" /\ Loads(file)) =>
       /\ ~ev'.raised
       /\ Loads(file')
       /\ HistOf(file') = HistOf(file)
       /\ DOMAIN SlotsOf(file') = DOMAIN SlotsOf(file) \ {ev'.slot}
       /\ \A o \in DOMAIN SlotsOf(file') : SlotsOf(file')[o] = SlotsOf(file)[o]
       /\ IF ev'.slot \in DOMAIN SlotsOf(file)
            THEN ev'.out = "Cleared slot"
            ELSE ev'.out = "Slot not found" /\ file' = file /\ ev'.saves = 0
    ]_vars

\* A clear removed one of two slots: the other is still there, with a history.
C4_Witness ==
  /\ ev.op = "clear" /\ ev.out = "Cleared slot" /\ ev.slot = "A"
  /\ DOMAIN SlotsOf(file) = {"1"}
  /\ Len(HistOf(file)) = 2

\* A clear of a slot that is not there, in a Store that holds another slot.
C4_WitnessNotFound ==
  /\ ev.op = "clear" /\ ev.out = "Slot not found" /\ ev.slot = "a"
  /\ DOMAIN SlotsOf(file) = {"A"}

\* C5: on a file that holds a Store without the slot, paste(slot) makes no
\* set_clipboard call, logs "<slot> is empty" and leaves the file as it was.
C5_PasteAbsentSlot ==
  [][(ev'.op = "paste" /\ Loads(file) /\ ev'.slot \notin DOMAIN SlotsOf(file)) =>
       /\ ev'.clip = << >>
       /\ ev'.out = "is empty"
       /\ ~ev'.raised
       /\ file' = file
    ]_vars

\* A paste of a slot that was assigned and then cleared, while the other slot
\* holds content.
C5_Witness ==
  /\ ev.op = "paste" /\ ev.out = "is empty" /\ ev.slot = "1"
  /\ DOMAIN SlotsOf(file) = {"A"}
  /\ \E i \in 1..Len(HistOf(file)) : HistOf(file)[i].slot = "1"

\* The content of the latest history entry of a slot: what the most recent
\* assign to the slot captured.
LastAssigned(h, slot) ==
  LET idx == {i \in 1..Len(h) : h[i].slot = slot} IN
    IF idx = {} THEN [present |-> FALSE, content |-> ""]
    ELSE [present |-> TRUE,
          content |-> h[CHOOSE i \in idx : \A j \in idx : j <= i].content]

\* C6: in a Store built by assign and clear (StoreSpec), paste(slot) of a slot
\* that is there calls set_clipboard exactly once, with the slot's content,
\* which is what the most recent assign to the slot captured, and leaves the
\* file as it was.
C6_PastePresentSlot ==
  [][(ev'.op = "paste" /\ Loads(file) /\ ev'.slot \in DOMAIN SlotsOf(file)) =>
       /\ ev'.clip = << SlotsOf(file)[ev'.slot].content >>
       /\ LastAssigned(HistOf(file), ev'.slot) =
            [present |-> TRUE, content |-> ev'.clip[1]]
       /\ ev'.out = "to clipboard"
       /\ ~ev'.raised
       /\ ev'.saves = 0
       /\ file' = file
    ]_vars

\* A paste of slot A after assign(A, x), assign(A, y): y goes to the clipboard.
C6_Witness ==
  /\ ev.op = "paste" /\ ev.slot = "A" /\ ev.clip = << "y" >>
  /\ Len(HistOf(file)) = 2
  /\ HistOf(file)[1].slot = "A" /\ HistOf(file)[1].content = "x"
  /\ HistOf(file)[2].slot = "A" /\ HistOf(file)[2].content = "y"

\* C7: load_data never fails: for a file that is absent or does not hold a
\* JSON object it returns the empty Store, and for an object it returns the
\* object with "slots" and "history" defaulted to empty.
C7_LoadNeverFails ==
  LET r == load_data(file) IN
    /\ ~r.raised
    /\ (file.kind # "json" \/ file.top # "object") => r.data = EmptyStore
    /\ (file.kind = "json" /\ file.top = "object") =>
         /\ DOMAIN r.data = DOMAIN file.obj \cup {"slots", "history"}
         /\ \A k \in DOMAIN file.obj : r.data[k] = file.obj[k]
         /\ \A k \in {"slots", "history"} \ DOMAIN file.obj : r.data[k] = << >>

\* C8: save(load()) is a fixed point for every file: load_data returns, and
\* loading what save_data writes of it returns the same value.
C8_SaveLoadFixedPoint ==
  LET r == load_data(file) IN
    /\ ~r.raised
    /\ load_data(save_data(r.data)) = r

\* The 35 slot identifiers: A-Z and 1-9.
Universe35 ==
  { "A", "B", "C", "D", "E", "F", "G", "H", "I", "J", "K", "L", "M",
    "N", "O", "P", "Q", "R", "S", "T", "U", "V", "W", "X", "Y", "Z",
    "1", "2", "3", "4", "5", "6", "7", "8", "9" }

\* The part of C9 that is about the tables alone.
TableDistinct ==
  /\ DOMAIN slots = Universe35
  /\ \A s \in Universe35 : slots[s][1] # slots[s][2]
  /\ \A s, t \in Universe35 :
       s # t => {slots[s][1], slots[s][2]} \cap {slots[t][1], slots[t][2]} = {}
  /\ Cardinality(DOMAIN hotkeys) = 70
  /\ \A s \in Universe35 :
       /\ hotkeys[slots[s][1]] = [action |-> "assign", slot |-> s]
       /\ hotkeys[slots[s][2]] = [action |-> "paste", slot |-> s]

\* C9: the slot table covers exactly the 35 identifiers, each with two
\* different combos, no combo belongs to two slots, and so the 70 combos are
\* 70 bindings: the assign combo of a slot runs assign on that slot, its paste
\* combo runs paste on it, and the closure that ran last is the one bound to
\* the key pressed.
C9_BindingsDistinct ==
  /\ TableDistinct
  /\ key # "" => /\ key \in DOMAIN hotkeys
                 /\ hotkeys[key] = [action |-> ev.op, slot |-> ev.slot]

\* The paste key of a digit slot was pressed and paste ran on that slot.
C9_Witness ==
  /\ key = "<alt>+1" /\ ev.op = "paste" /\ ev.slot = "1"
  /\ ev.clip # << >>

\* C10: a load_data that reads the file while another process is inside a
\* save_data that began on a file holding a Store returns the Store the file
\* held before that save or the Store being saved.
C10_LoadSeesBeforeOrAfter ==
  [][\A p \in Procs, q \in Procs :
       (/\ p # q
        /\ proc[p].pc = "idle" /\ proc'[p].pc = "loaded"
        /\ proc[q].pc = "opened"
        /\ Loads(proc[q].before)) =>
          /\ ~proc'[p].seen.raised
          /\ StoreOf(proc'[p].seen.data) \in
               {StoreOf(load_data(proc[q].before).data), StoreOf(proc[q].data)}
    ]_vars

\* What the finished operation j of an interleaved process makes of the dict
\* data when it runs alone on it: an assign writes with the times it read.
Effect(j, data) ==
  IF j.op = "assign"
    THEN AssignData(data, j.slot, j.text, j.data["slots"][j.slot].time,
                    j.data["history"][Len(j.data["history"])].time)
  ELSE IF j.op = "clear"
    THEN IF j.slot \in DOMAIN data["slots"] THEN ClearData(data, j.slot) ELSE data
  ELSE IF j.op = "import" THEN j.data
  ELSE data

\* The process that started first of the two.
First == CHOOSE p \in Procs : ~proc[p].joined

\* A daemon assign and a CLI clear or import have overlapped and both returned.
C11_Overlapped ==
  /\ proc["daemon"].pc = "done" /\ proc["cli"].pc = "done"
  /\ proc["daemon"].op = "assign" /\ proc["cli"].op \in {"clear", "import"}
  /\ proc["daemon"].joined # proc["cli"].joined
  /\ ~proc["daemon"].seen.raised /\ ~proc["cli"].seen.raised
  /\ Loads(proc[First].start)

\* C11: when a daemon assign and a CLI clear or import overlap on a file that
\* held a Store, the file holds afterwards the Store that the two operations
\* produce when run one after the other, in one of the two orders.
C11_NoLostUpdate ==
  C11_Overlapped =>
    LET s0 == load_data(proc[First].start).data
        d  == proc["daemon"]
        c  == proc["cli"]
    IN /\ Loads(file)
       /\ StoreOf(load_data(file).data) \in
            {StoreOf(Effect(c, Effect(d, s0))), StoreOf(Effect(d, Effect(c, s0)))}

\* C12: a start of the daemon ends Running, with the combos of hotkeys
\* registered, only if pynput can be imported and, on Linux (the platform that
\* needs a backend), one of xclip, wl-copy and pyperclip is there; otherwise it
\* ends Terminated with a non-zero exit code, nothing registered and the file
\* as it was.
C12_StartFailsFast ==
  [][(loop.state = "Idle" /\ ev'.op = "daemon") =>
       LET e == ev'.env
           capable == /\ e.pynput
                      /\ e.platform = "Linux" => (e.xclip \/ e.wlcopy \/ e.pyperclip)
       IN /\ loop'.state = "Running" =>
               capable /\ loop'.registered = DOMAIN hotkeys
          /\ ~capable =>
               /\ loop'.state = "Terminated"
               /\ loop'.code # 0
               /\ loop'.registered = {}
               /\ file' = file
    ]_vars

\* A start on Linux with pynput and no backend has exited with a non-zero code.
C12_Witness ==
  /\ ev.op = "daemon" /\ ev.env.pynput /\ ev.env.platform = "Linux"
  /\ ~(ev.env.xclip \/ ev.env.wlcopy \/ ev.env.pyperclip)
  /\ loop.state = "Terminated" /\ loop.code # 0 /\ loop.registered = {}

\* A start on macOS with pynput and no backend runs, a start on Linux with
\* wl-copy alone too.
C12_WitnessRunning ==
  /\ ev.op = "daemon" /\ loop.state = "Running"
  /\ \/ ev.env.platform = "Darwin" /\ ~(ev.env.xclip \/ ev.env.wlcopy \/ ev.env.pyperclip)
     \/ ev.env.platform = "Linux" /\ ev.env.wlcopy /\ ~ev.env.xclip /\ ~ev.env.pyperclip

\* C13: while the daemon is Running on a file that holds a Store, nothing but
\* the stop signal takes it out of Running: whatever fails inside an assign or
\* a paste, the daemon is Running afterwards with its hotkeys registered.
C13_OnlyStopEndsRunning ==
  [][(loop.state = "Running" /\ Loads(file) /\ ev'.op # "stop") =>
       /\ loop'.state = "Running"
       /\ loop'.registered = loop.registered
    ]_vars

\* C14: whenever the file holds a Store, every key of its slot mapping is one
\* of the 35 symbols A-Z, 1-9.
C14_SlotKeysInUniverse ==
  Loads(file) => DOMAIN SlotsOf(file) \subseteq SlotUniverse

\* The input of an import is missing, is not JSON, or is not a JSON object.
Malformed(src) ==
  src.kind = "absent" \/ JsonLoad(src).raised \/ JsonLoad(src).data.top # "object"

\* C15: an import of a file that is missing, is not JSON or is not a JSON
\* object ends in an exception and leaves the persisted file as it was; and an
\* import that ends in an exception has written nothing.
C15_FailedImportCommitsNothing ==
  [][(ev'.op = "import" /\ (Malformed(ev'.src) \/ ev'.raised)) =>
       /\ ev'.raised
       /\ ev'.saves = 0
       /\ file' = file
    ]_vars

\* An import of bytes that are not JSON has failed on a file holding slot A.
C15_Witness ==
  /\ ev.op = "import" /\ ev.raised /\ ev.src = Garbage
  /\ Loads(file) /\ "A" \in DOMAIN SlotsOf(file)

\* The slot each combo was built for.
ComboOwner ==
  [c \in {slots[s][i] : s \in SlotUniverse, i \in 1..2} |->
     CHOOSE s \in SlotUniverse : c \in {slots[s][1], slots[s][2]}]

\* C16: the closure registered under the assign combo of a slot s, run with a
\* non-empty selection on a file that holds a Store, writes slot s, leaves
\* every other slot's entry as it was and appends one history entry naming s;
\* the closure under the paste combo of s gives set_clipboard the content of
\* slot s, or nothing when s is absent, and leaves the file alone.
C16_BindingActsOnItsSlot ==
  [][(key' # "" /\ Loads(file)) =>
       LET s == ComboOwner[key'] IN
         /\ (key' = slots[s][1] /\ ev'.text # "") =>
              /\ ev'.op = "assign" /\ ev'.slot = s
              /\ DOMAIN SlotsOf(file') = DOMAIN SlotsOf(file) \cup {s}
              /\ SlotsOf(file')[s].content = ev'.text
              /\ \A o \in DOMAIN SlotsOf(file) \ {s} :
                   SlotsOf(file')[o] = SlotsOf(file)[o]
              /\ Len(HistOf(file')) = Len(HistOf(file)) + 1
              /\ HistOf(file')[Len(HistOf(file'))].slot = s
         /\ key' = slots[s][2] =>
              /\ ev'.op = "paste" /\ ev'.slot = s
              /\ ev'.clip = IF s \in DOMAIN SlotsOf(file)
                              THEN << SlotsOf(file)[s].content >> ELSE << >>
              /\ file' = file
    ]_vars

\* The assign combo of A has run after slot 1 was assigned: A holds the new
\* selection and slot 1 still holds its own.
C16_Witness ==
  /\ key = slots["A"][1] /\ ev.op = "assign" /\ ev.text = "y"
  /\ Loads(file)
  /\ DOMAIN SlotsOf(file) = {"A", "1"}
  /\ SlotsOf(file)["A"].content = "y"
  /\ SlotsOf(file)["1"].content = "x"
  /\ HistOf(file)[Len(HistOf(file))].slot = "A"

\* C17: after every assign that saved, the time of the slot's entry is the
\* time of the history entry that the assign appended.
C17_SlotTimeIsHistoryTime ==
  [][(ev'.op = "assign" /\ ev'.saves = 1 /\ ~ev'.raised) =>
       SlotsOf(file')[ev'.slot].time = HistOf(file')[Len(HistOf(file'))].time
    ]_vars

\* C18: for every letter slot s that the file's Store holds, a clear given s
\* or the lowercase form of s removes s from the slot mapping.
C18_ClearIgnoresCase ==
  [][\A i \in DOMAIN Letters :
       (/\ ev'.op = "clear"
        /\ ev'.slot \in {Letters[i], Lower(Letters[i])}
        /\ Loads(file)
        /\ Letters[i] \in DOMAIN SlotsOf(file)) =>
          /\ ev'.out = "Cleared slot"
          /\ Letters[i] \notin DOMAIN SlotsOf(file')
    ]_vars

\* The top-level keys of a JSON object that are not "slots" and "history".
UnknownKeys(obj) == DOMAIN obj \ {"slots", "history"}

\* C19: when the file holds a JSON object, every step of the daemon and of
\* clear leaves it holding a JSON object in which each top-level key other
\* than "slots" and "history" is still there with the value it had.
C19_UnknownKeysKept ==
  [][(file.kind = "json" /\ file.top = "object") =>
       /\ file'.kind = "json" /\ file'.top = "object"
       /\ \A k \in UnknownKeys(file.obj) :
            k \in DOMAIN file'.obj /\ file'.obj[k] = file.obj[k]
    ]_vars

\* A file with the key "version" has gone through an assign and a clear that
\* removed the slot, and still has the key with its value.
C19_Witness ==
  /\ ev.op = "clear" /\ ev.out = "Cleared slot"
  /\ file.kind = "json" /\ file.top = "object"
  /\ "version" \in DOMAIN file.obj /\ file.obj["version"] = 2
  /\ Len(file.obj["history"]) = 1

\* The history h has an entry for the slot.
Recorded(h, slot) == \E i \in 1..Len(h) : h[i].slot = slot

\* C20: in every Store reached from the empty Store by the daemon's assign and
\* paste and by clear, each slot of the slot mapping has non-empty content, the
\* history has an entry for it, and the slot's content is the content of the
\* last of its history entries.
C20_SlotsMatchHistory ==
  Loads(file) =>
    \A s \in DOMAIN SlotsOf(file) :
      /\ SlotsOf(file)[s].content # ""
      /\ Recorded(HistOf(file), s)
      /\ SlotsOf(file)[s].content = LastAssigned(HistOf(file), s).content

\* A and 1 were assigned and A was cleared: slot 1 is the only slot left and
\* the history has both entries.
C20_Witness ==
  /\ ev.op = "clear" /\ ev.out = "Cleared slot"
  /\ Loads(file)
  /\ DOMAIN SlotsOf(file) = {"1"}
  /\ Len(HistOf(file)) = 2
  /\ Recorded(HistOf(file), "A") /\ Recorded(HistOf(file), "1")
====
